---- MODULE Spec2Model ----
(***************************************************************************)
(* State-machine model of src/gui_app.py, a Streamlit script.  Streamlit   *)
(* runs the script top to bottom once per page load and once per submitted *)
(* chat input; st.cache_resource keeps one engine handle per server        *)
(* process; st.session_state keeps one history per browser session.        *)
(* One action models one whole script run.  The file system (PERSIST_DIR,  *)
(* DATA_DIR), the secret store and the outcomes of the library calls are   *)
(* the environment.                                                        *)
(*                                                                         *)
(* The source's Chinese string literals are written here as ASCII glosses  *)
(* (the module's strings are ASCII); each gloss names its source line.     *)
(***************************************************************************)
EXTENDS Integers, Sequences, FiniteSets, TLC

\* ------------------------------------------------------------- bounds
\* Chat inputs submitted to one server process, over all its sessions.
MaxTurns == 2

\* ------------------------------------------------------- input domains
\* Browser sessions.
Sessions == {"s1", "s2"}
\* Raw texts a user may type.
Prompts == {"what is a stock?", "hi"}
\* Contents a document directory (and so an index) may have.
DocSets == {{"ch3.pdf"}, {"ch3.pdf", "ch5.pdf"}}

\* A Python None is the empty sequence, a present value v is <<v>>.
None == <<>>
Some(v) == <<v>>
\* A dict or namespace without any key.
NoKeys == [k \in {} |-> None]

\* Source nodes of a response.  A score is in thousandths (875 is 0.875):
\* a present file name and score; no file_name key and score None; score
\* 0.0; a small positive score; a tie of the two-decimal rounding.
NodeA == [metadata |-> [file_name |-> "ch3.pdf"], score |-> Some(873)]
NodeB == [metadata |-> NoKeys, score |-> None]
NodeC == [metadata |-> [file_name |-> "ch5.pdf"], score |-> Some(0)]
NodeD == [metadata |-> [file_name |-> "ch11.pdf"], score |-> Some(4)]
NodeE == [metadata |-> [file_name |-> "ch6.pdf"], score |-> Some(1125)]

\* Response objects chat_engine.chat may return: with source nodes, with
\* an empty source_nodes list, and with no source_nodes attribute at all
\* (and an answer of None).
Responses ==
    { [response |-> Some("A stock accumulates flows."),
       source_nodes |-> <<NodeA, NodeB, NodeC, NodeD, NodeE>>],
      [response |-> Some("Please see the syllabus."), source_nodes |-> <<>>],
      [response |-> None] }

\* What a call of chat_engine.chat may do: return a response or raise.
Raise == [raise |-> TRUE]
ChatOutcomes == Responses \cup {Raise}

VARIABLES
    secret,         \* "GOOGLE_API_KEY" is in st.secrets
    persistExists,  \* os.path.exists(PERSIST_DIR)
    persistIndex,   \* documents of the index stored there; {} when none is
    dataExists,     \* os.path.exists(DATA_DIR)
    dataFiles,      \* os.listdir(DATA_DIR)
    settingsBound,  \* Settings.llm and Settings.embed_model are set
    cache,          \* st.cache_resource's entry for init_expert_system
    session_state,  \* st.session_state of each session
    chatInput,      \* the session's page holds the chat input widget
    \* history variables, read by the properties only
    coldValid,      \* PERSIST_DIR was absent at the very start and DATA_DIR
                    \* has held documents from the start until now
    pre,            \* the state the last script run started in
    ran,            \* the session of the last script run
    log,            \* the calls the last script run made, in order
    screen,         \* what the last script run rendered, in order
    inputs,         \* raw texts each session submitted, in order
    turns,          \* completed turns of each session, in order
    nBuilt,         \* indexes built so far
    nPersisted,     \* indexes written to PERSIST_DIR so far
    nTurns          \* chat inputs submitted to this process so far

progVars == <<secret, persistExists, persistIndex, dataExists, dataFiles,
              settingsBound, cache, session_state, chatInput>>
histVars == <<coldValid, pre, ran, log, screen, inputs, turns,
              nBuilt, nPersisted, nTurns>>
vars == <<progVars, histVars>>

\* ---------------------------------------------------------- constants
\* DATA_DIR = "./data" (PERSIST_DIR = "./storage" is named in the calls)
DATA_DIR == "./data"
\* The suffix appended to every prompt (line 96; gloss of the Chinese text).
LANG_SUFFIX == " (note: answer in Traditional Chinese only)"
\* The default file name (line 103; gloss of the Chinese text).
UNKNOWN_CHAPTER == "unknown chapter"

\* ------------------------------------------------------ pure functions
\* str(response): the answer text, "None" when there is none.
Str(response) ==
    IF response.response = None THEN "None" ELSE response.response[1]

\* Two decimal digits of n, 0 <= n < 100.
TwoDigits(n) == ToString(n \div 10) \o ToString(n % 10)

\* f"{x:.2f}" of a score of t thousandths, t >= 0: rounded to hundredths,
\* a tie going to the even hundredth.
Format2f(t) ==
    LET q == t \div 10
        r == t % 10
        h == IF r > 5 \/ (r = 5 /\ q % 2 = 1) THEN q + 1 ELSE q
    IN ToString(h \div 100) \o "." \o TwoDigits(h % 100)

\* Python's truth value of node.score: None and 0.0 are false.
Truthy(score) == score # None /\ score[1] # 0

\* node.metadata.get('file_name', default)
FileName(node) ==
    IF "file_name" \in DOMAIN node.metadata
    THEN node.metadata.file_name
    ELSE UNKNOWN_CHAPTER

\* f"{node.score:.2f}" if node.score else "N/A"
ScoreText(node) ==
    IF Truthy(node.score) THEN Format2f(node.score[1]) ELSE "N/A"

\* One line of ref_info, for the node at 0-based position i.
RefLine(i, node) ==
    "**[ref " \o ToString(i + 1) \o "]** '" \o FileName(node)
        \o "' (weight: " \o ScoreText(node) \o ")\n\n"

RECURSIVE RefLines(_, _)
RefLines(nodes, n) ==
    IF n = 0 THEN ""
    ELSE RefLines(nodes, n - 1) \o RefLine(n - 1, nodes[n])

\* ref_info of a response: "" without a source_nodes attribute.
RefInfo(response) ==
    IF "source_nodes" \in DOMAIN response
    THEN RefLines(response.source_nodes, Len(response.source_nodes))
    ELSE ""

\* --------------------------------------------------- history entries
\* Mutation of UserEntry: the text sent to the engine is stored.
UserEntry_Suffixed(prompt) ==
    [role |-> "user", content |-> prompt \o LANG_SUFFIX]

UserEntry(prompt) == [role |-> "user", content |-> prompt]

\* Mutation of AssistantEntry: the citations are folded into the content.
AssistantEntry_WithRefs(answer, ref_info) ==
    [role |-> "assistant", content |-> answer \o ref_info,
     sources |-> ref_info]

AssistantEntry(answer, ref_info) ==
    [role |-> "assistant", content |-> answer, sources |-> ref_info]

\* What chat_engine.chat is called with.
ChatArgument(prompt) == prompt \o LANG_SUFFIX

\* ---------------------------------------------------------- rendering
\* One chat message on the page: its text and, under it, the expander.
Rendered(role, text, panel, panelText) ==
    [role |-> role, text |-> text, panel |-> panel,
     panelText |-> IF panel THEN panelText ELSE ""]

\* The replay loop's rendering of one stored message.
ReplayPanel(msg) == msg.role = "assistant" /\ "sources" \in DOMAIN msg

Replay(msg) ==
    Rendered(msg.role, msg.content, ReplayPanel(msg),
             IF ReplayPanel(msg) THEN msg.sources ELSE "")

\* The turn handler's live rendering of the answer.
LivePanel(ref_info) == ref_info # ""

Live(answer, ref_info) ==
    Rendered("assistant", answer, LivePanel(ref_info), ref_info)

ErrorBox(text) == Rendered("st.error", text, FALSE, "")

\* ---------------------------------------------------------- bootstrap
\* Mutation of HasCredential: the failed lookup is ignored.
HasCredential_Ignored == TRUE

\* The credential lookup: st.secrets["GOOGLE_API_KEY"] does not raise.
HasCredential == secret

\* Mutations of PersistDirAbsent: a directory without an index counts as
\* absent; the directory is never taken as absent.
PersistDirAbsent_OrEmpty == ~persistExists \/ persistIndex = {}
PersistDirAbsent_Never == FALSE

\* The branch of init_expert_system: build when PERSIST_DIR is absent.
PersistDirAbsent == ~persistExists

\* Mutation of NoMaterials: only a missing directory is refused.
NoMaterials_MissingOnly == ~dataExists

\* The guard before the build: DATA_DIR is missing or empty.  The
\* second operand is evaluated only when the directory exists.
NoMaterials == ~dataExists \/ dataFiles = {}

NoMaterialsCalls ==
    IF dataExists THEN <<"os.path.exists(DATA_DIR)", "os.listdir(DATA_DIR)">>
    ELSE <<"os.path.exists(DATA_DIR)">>

\* The chat engine over an index.
Engine(index) == [index |-> index]

\* The body of init_expert_system.  buildOk: the embedding calls of
\* VectorStoreIndex.from_documents return (they raise otherwise).
\* outcome is "return", "stop" (st.stop) or "raise".
init_expert_system(buildOk) ==
    LET head == <<"init_expert_system", "Settings.llm", "Settings.embed_model",
                  "os.path.exists(PERSIST_DIR)">>
        same == [persistExists |-> persistExists,
                 persistIndex |-> persistIndex, built |-> 0, persisted |-> 0]
    IN IF PersistDirAbsent
       THEN IF NoMaterials
            THEN same @@ [outcome |-> "stop", engine |-> None,
                          log |-> head \o NoMaterialsCalls
                                      \o <<"st.error", "st.stop">>]
            ELSE IF ~buildOk
            THEN same @@ [outcome |-> "raise", engine |-> None,
                          log |-> head \o NoMaterialsCalls
                                      \o <<"load_data(DATA_DIR)",
                                           "from_documents", "raise">>]
            ELSE [outcome |-> "return", engine |-> Some(Engine(dataFiles)),
                  persistExists |-> TRUE, persistIndex |-> dataFiles,
                  built |-> 1, persisted |-> 1,
                  log |-> head \o NoMaterialsCalls
                              \o <<"load_data(DATA_DIR)", "from_documents",
                                   "persist(PERSIST_DIR)", "as_chat_engine">>]
       ELSE IF persistIndex = {}
            THEN same @@ [outcome |-> "raise", engine |-> None,
                          log |-> head \o <<"from_defaults(PERSIST_DIR)",
                                            "raise">>]
            ELSE same @@ [outcome |-> "return",
                          engine |-> Some(Engine(persistIndex)),
                          log |-> head \o <<"from_defaults(PERSIST_DIR)",
                                            "load_index_from_storage",
                                            "as_chat_engine">>]

\* Mutation of CacheHit: the decorator is missing.
CacheHit_Never == FALSE

\* st.cache_resource holds a value for init_expert_system.
CacheHit == cache # None

\* chat_engine = init_expert_system() under @st.cache_resource: the
\* cached value when there is one; else the body runs and its return
\* value, if it returns, is cached.
cached_init(buildOk) ==
    IF CacheHit
    THEN [outcome |-> "return", engine |-> cache, cache |-> cache,
          settingsBound |-> settingsBound,
          persistExists |-> persistExists, persistIndex |-> persistIndex,
          built |-> 0, persisted |-> 0, log |-> <<"cache_hit">>]
    ELSE LET b == init_expert_system(buildOk)
         IN b @@ [cache |-> b.engine, settingsBound |-> TRUE]

\* ------------------------------------------------- resources accessed
DataCalls == {"os.path.exists(DATA_DIR)", "os.listdir(DATA_DIR)",
              "load_data(DATA_DIR)"}
PersistCalls == {"os.path.exists(PERSIST_DIR)", "persist(PERSIST_DIR)",
                 "from_defaults(PERSIST_DIR)", "load_index_from_storage"}
NetworkCalls == {"from_documents", "chat_engine.chat"}

Touched(l) ==
    {r \in {"data", "persist", "network"} :
        \E i \in 1..Len(l) :
            \/ r = "data" /\ l[i] \in DataCalls
            \/ r = "persist" /\ l[i] \in PersistCalls
            \/ r = "network" /\ l[i] \in NetworkCalls}

Snapshot ==
    [secret |-> secret, persistExists |-> persistExists,
     persistIndex |-> persistIndex, dataExists |-> dataExists,
     dataFiles |-> dataFiles, cache |-> cache,
     session_state |-> session_state]

\* --------------------------------------------------------------- Init
Init ==
    /\ secret \in BOOLEAN
    /\ persistExists \in BOOLEAN
    /\ persistIndex \in (IF persistExists THEN {{}, {"ch3.pdf"}} ELSE {{}})
    /\ dataExists \in BOOLEAN
    /\ dataFiles \in (IF dataExists THEN DocSets \cup {{}} ELSE {{}})
    /\ settingsBound = FALSE
    /\ cache = None
    /\ session_state = [s \in Sessions |-> NoKeys]
    /\ chatInput = [s \in Sessions |-> FALSE]
    /\ coldValid = (~persistExists /\ dataFiles # {})
    /\ pre = Snapshot
    /\ ran = "s1"
    /\ log = <<>>
    /\ screen = <<>>
    /\ inputs = [s \in Sessions |-> <<>>]
    /\ turns = [s \in Sessions |-> <<>>]
    /\ nBuilt = 0
    /\ nPersisted = 0
    /\ nTurns = 0

\* ------------------------------------------------------ one script run
\* prompt: None when st.chat_input returns nothing, Some(text) when the
\* user submitted text.  chat: what chat_engine.chat does if it is called.
ScriptRun(s, prompt, buildOk, chat) ==
    /\ pre' = Snapshot
    /\ ran' = s
    /\ UNCHANGED <<secret, dataExists, dataFiles, coldValid>>
    /\ nTurns' = IF prompt = None THEN nTurns ELSE nTurns + 1
    /\ IF ~HasCredential
       THEN \* lines 19-24: st.error, st.stop
            /\ log' = <<"st.secrets", "st.error", "st.stop">>
            /\ screen' = <<ErrorBox("GOOGLE_API_KEY not found")>>
            /\ chatInput' = [chatInput EXCEPT ![s] = FALSE]
            /\ UNCHANGED <<persistExists, persistIndex, settingsBound, cache,
                           session_state, inputs, turns, nBuilt, nPersisted>>
       ELSE
       LET b == cached_init(buildOk)
       IN
       /\ persistExists' = b.persistExists
       /\ persistIndex' = b.persistIndex
       /\ settingsBound' = b.settingsBound
       /\ cache' = b.cache
       /\ nBuilt' = nBuilt + b.built
       /\ nPersisted' = nPersisted + b.persisted
       /\ IF b.outcome # "return"
          THEN \* line 48 (st.stop) or an exception out of line 73
               /\ log' = <<"st.secrets">> \o b.log
               /\ screen' = IF b.outcome = "stop"
                            THEN <<ErrorBox("no materials in " \o DATA_DIR)>>
                            ELSE <<ErrorBox("exception")>>
               /\ chatInput' = [chatInput EXCEPT ![s] = FALSE]
               /\ UNCHANGED <<session_state, inputs, turns>>
          ELSE
          LET \* lines 76-77
              messages == IF "messages" \in DOMAIN session_state[s]
                          THEN session_state[s].messages ELSE <<>>
              \* lines 80-85
              replay == [i \in 1..Len(messages) |-> Replay(messages[i])]
              upto88 == <<"st.secrets">> \o b.log \o <<"replay", "st.chat_input">>
          IN
          /\ chatInput' = [chatInput EXCEPT ![s] = TRUE]
          /\ IF prompt = None
             THEN /\ session_state' =
                        [session_state EXCEPT ![s] = [messages |-> messages]]
                  /\ log' = upto88
                  /\ screen' = replay
                  /\ UNCHANGED <<inputs, turns>>
             ELSE
             LET p == prompt[1]
                 withUser == Append(messages, UserEntry(p))
                 called == upto88 \o <<"chat_engine.chat">>
             IN
             /\ inputs' = [inputs EXCEPT ![s] = Append(@, p)]
             /\ IF chat = Raise
                THEN \* line 96 raises: the run ends there
                     /\ session_state' =
                           [session_state EXCEPT ![s] = [messages |-> withUser]]
                     /\ log' = called \o <<"raise">>
                     /\ screen' = replay \o <<Rendered("user", p, FALSE, ""),
                                              ErrorBox("exception")>>
                     /\ turns' = turns
                ELSE
                LET answer == Str(chat)
                    ref_info == RefInfo(chat)
                IN
                /\ session_state' =
                      [session_state EXCEPT ![s] =
                          [messages |-> Append(withUser,
                                               AssistantEntry(answer, ref_info))]]
                /\ log' = called
                /\ screen' = replay \o <<Rendered("user", p, FALSE, ""),
                                         Live(answer, ref_info)>>
                /\ turns' = [turns EXCEPT ![s] =
                                Append(@, [inputNo |-> Len(inputs[s]) + 1,
                                           sent |-> ChatArgument(p),
                                           returned |-> chat,
                                           live |-> Live(answer, ref_info)])]

\* ------------------------------------------------------------ actions
\* A page load or rerun of session s without a submitted chat input.
Rerun(s) ==
    \E buildOk \in BOOLEAN : ScriptRun(s, None, buildOk, Raise)

\* Session s submits text in the chat input its page holds.
Submit(s) ==
    /\ chatInput[s]
    /\ nTurns < MaxTurns
    /\ \E p \in Prompts, buildOk \in BOOLEAN, chat \in ChatOutcomes :
           ScriptRun(s, Some(p), buildOk, chat)

\* The server process ends and a new one starts: the resource cache, the
\* Settings singleton and every session's state are gone, the file
\* system stays.  (A process that never entered init_expert_system has
\* nothing to lose.)  The page of the last run is gone too.
Restart ==
    /\ cache # None \/ settingsBound
    /\ cache' = None
    /\ settingsBound' = FALSE
    /\ session_state' = [s \in Sessions |-> NoKeys]
    /\ chatInput' = [s \in Sessions |-> FALSE]
    /\ inputs' = [s \in Sessions |-> <<>>]
    /\ turns' = [s \in Sessions |-> <<>>]
    /\ nTurns' = 0
    /\ log' = <<>>
    /\ screen' = <<>>
    /\ pre' = [Snapshot EXCEPT !.cache = None,
                                !.session_state = [s \in Sessions |-> NoKeys]]
    /\ UNCHANGED <<secret, persistExists, persistIndex, dataExists, dataFiles,
                   coldValid, ran, nBuilt, nPersisted>>

\* The environment changes the document directory between script runs.
\* The history variables of the last run are cleared: they describe a run
\* only in the state that run ended in.
ChangeData ==
    /\ log' = <<>>
    /\ screen' = <<>>
    /\ \E e \in BOOLEAN :
         \E f \in (IF e THEN DocSets \cup {{}} ELSE {{}}) :
            /\ <<e, f>> # <<dataExists, dataFiles>>
            /\ dataExists' = e
            /\ dataFiles' = f
            /\ coldValid' = (coldValid /\ f # {})
            /\ pre' = [Snapshot EXCEPT !.dataExists = e, !.dataFiles = f]
    /\ UNCHANGED <<secret, persistExists, persistIndex, settingsBound, cache,
                   session_state, chatInput, ran, inputs, turns,
                   nBuilt, nPersisted, nTurns>>

Next ==
    \/ \E s \in Sessions : Rerun(s)
    \/ \E s \in Sessions : Submit(s)
    \/ Restart
    \/ ChangeData

Spec == Init /\ [][Next]_vars

\* ============================================================ properties
Last(s) == s[Len(s)]
Has(s, e) == \E i \in 1..Len(s) : s[i] = e
IsPrefix(s, t) == Len(s) <= Len(t) /\ \A i \in 1..Len(s) : s[i] = t[i]
\* The last step was a script run (Restart and ChangeData clear the log).
RanScript == log # <<>>
\* The last script run executed the body of init_expert_system.
EnteredInit == Has(log, "init_expert_system")
\* The branch the body took.
BuildPath == Has(log, "os.path.exists(DATA_DIR)")
LoadPath == Has(log, "from_defaults(PERSIST_DIR)")
BuildCalls == {"load_data(DATA_DIR)", "from_documents", "persist(PERSIST_DIR)"}
NoBuildCalls == \A i \in 1..Len(log) : log[i] \notin BuildCalls
\* The history of session s, and the one the last run started with.
Messages(s) ==
    IF "messages" \in DOMAIN session_state[s]
    THEN session_state[s].messages ELSE <<>>
PreMessages ==
    IF "messages" \in DOMAIN pre.session_state[ran]
    THEN pre.session_state[ran].messages ELSE <<>>
IsUser(e) == e.role = "user"
IsAssistant(e) == e.role = "assistant"
Users(m) == SelectSeq(m, IsUser)
Assistants(m) == SelectSeq(m, IsAssistant)
\* The number of the assistant entry at position i of m.
AssistantNo(m, i) == Len(Assistants(SubSeq(m, 1, i)))

TypeOK ==
    /\ secret \in BOOLEAN
    /\ cache \in {None} \cup {Some(Engine(d)) : d \in DocSets}
    /\ nTurns \in 0..MaxTurns

\* C1: without a GOOGLE_API_KEY credential every script run reports an
\* error and halts at once: it accesses neither the document directory,
\* nor the persisted-index directory, nor the network, never enters
\* init_expert_system, binds no model and never offers the chat input.
C1_NoCredentialHalts ==
    ~secret =>
        /\ RanScript =>
              /\ log = <<"st.secrets", "st.error", "st.stop">>
              /\ Len(screen) = 1 /\ screen[1].role = "st.error"
        /\ Touched(log) = {}
        /\ ~EnteredInit
        /\ ~settingsBound
        /\ cache = None
        /\ \A s \in Sessions : ~chatInput[s] /\ Messages(s) = <<>>
        /\ nTurns = 0 /\ nBuilt = 0 /\ nPersisted = 0

C1_Witness ==
    ~secret /\ log = <<"st.secrets", "st.error", "st.stop">>

\* C2: a bootstrap that finds no PERSIST_DIR and a missing or empty
\* DATA_DIR reports an error and halts: it loads no document, builds no
\* index, writes nothing to PERSIST_DIR, returns and caches no engine
\* handle, and no session can relay a chat turn.
C2_NoMaterialsHalts ==
    ( /\ EnteredInit
      /\ ~pre.persistExists
      /\ (~pre.dataExists \/ pre.dataFiles = {}) ) =>
        /\ Has(log, "st.error") /\ Last(log) = "st.stop"
        /\ NoBuildCalls
        /\ ~persistExists /\ persistIndex = {}
        /\ cache = None
        /\ ~Has(log, "as_chat_engine")
        /\ ~Has(log, "st.chat_input") /\ ~Has(log, "chat_engine.chat")
        /\ \A s \in Sessions : ~chatInput[s]

C2_Witness ==
    /\ EnteredInit /\ ~pre.persistExists
    /\ pre.dataExists /\ pre.dataFiles = {}
    /\ Last(log) = "st.stop"

\* C3: a bootstrap that finds PERSIST_DIR takes the load from it and,
\* whatever DATA_DIR is (missing, empty, different from what was indexed),
\* neither checks nor reads DATA_DIR, builds no index and writes nothing
\* to PERSIST_DIR; the engine it returns is over the stored index.
C3_LoadsPersisted ==
    (EnteredInit /\ pre.persistExists) =>
        /\ LoadPath
        /\ \A i \in 1..Len(log) : log[i] \notin DataCalls
        /\ NoBuildCalls
        /\ persistExists /\ persistIndex = pre.persistIndex
        /\ pre.persistIndex # {} =>
              /\ Has(log, "load_index_from_storage")
              /\ cache = Some(Engine(pre.persistIndex))

C3_Witness ==
    /\ EnteredInit /\ pre.persistExists /\ pre.persistIndex # {}
    /\ ~pre.dataExists
    /\ cache = Some(Engine(pre.persistIndex))

\* What C4 says of every bootstrap after the first: in the same process
\* the cached handle is returned, in a later process the stored index is
\* loaded, unchanged, without a rebuild.
C4_LaterBootstraps ==
    /\ (RanScript /\ pre.cache # None) =>
          /\ ~EnteredInit /\ Has(log, "cache_hit")
          /\ cache = pre.cache
          /\ persistIndex = pre.persistIndex
    /\ (EnteredInit /\ pre.persistExists) =>
          /\ LoadPath /\ NoBuildCalls
          /\ persistIndex = pre.persistIndex
          /\ cache = Some(Engine(pre.persistIndex))
\* The build comes right before the write.
C4_BuildBeforePersist ==
    \A i \in 1..Len(log) :
        log[i] = "persist(PERSIST_DIR)" => i > 1 /\ log[i - 1] = "from_documents"
\* The first bootstrap built and persisted the index.
C4_FirstBuilt ==
    /\ Has(log, "from_documents") /\ Has(log, "persist(PERSIST_DIR)")
    /\ persistExists /\ persistIndex = pre.dataFiles
    /\ cache = Some(Engine(pre.dataFiles))

\* C4 as stated: starting without PERSIST_DIR and with documents in
\* DATA_DIR, the index is built and persisted exactly once, by the first
\* bootstrap, build before persist; later bootstraps of the process return
\* the cached handle and bootstraps of later processes load the stored
\* index without rebuilding.
C4_Original ==
    coldValid =>
        /\ nBuilt <= 1 /\ nPersisted = nBuilt
        /\ persistExists <=> nBuilt = 1
        /\ C4_BuildBeforePersist
        /\ C4_LaterBootstraps
        /\ (EnteredInit /\ ~pre.persistExists) => C4_FirstBuilt

\* C4 as amended: the index is built and persisted at most once, by the
\* first bootstrap whose build completes, build before persist; a bootstrap
\* whose build raises writes nothing and caches nothing; once the index is
\* persisted, later bootstraps of the process return the cached handle and
\* bootstraps of later processes load the stored index without rebuilding.
C4_BuiltOnceWhenBuildCompletes ==
    coldValid =>
        /\ nBuilt <= 1 /\ nPersisted = nBuilt
        /\ persistExists <=> nBuilt = 1
        /\ C4_BuildBeforePersist
        /\ C4_LaterBootstraps
        /\ (EnteredInit /\ ~pre.persistExists) =>
              \/ C4_FirstBuilt
              \/ /\ Last(log) = "raise"
                 /\ ~Has(log, "persist(PERSIST_DIR)")
                 /\ ~persistExists /\ cache = None /\ nBuilt = 0

C4_Witness ==
    /\ coldValid /\ nBuilt = 1
    /\ EnteredInit /\ Has(log, "load_index_from_storage")
    /\ pre.dataFiles # persistIndex

\* The history entry of the j-th completed turn of session s.
TurnEntry(s, j) == Assistants(Messages(s))[j]

\* C5: for every completed turn, the text shown live, the content stored
\* in the assistant entry and the text every replay shows for that entry
\* are str(response) of the response the engine returned for the turn.
C5_AnswerIsStrOfResponse ==
    /\ \A s \in Sessions :
          /\ Len(Assistants(Messages(s))) = Len(turns[s])
          /\ \A j \in 1..Len(turns[s]) :
                /\ turns[s][j].live.text = Str(turns[s][j].returned)
                /\ TurnEntry(s, j).content = Str(turns[s][j].returned)
    /\ Has(log, "replay") =>
          /\ Len(screen) >= Len(PreMessages)
          /\ \A i \in 1..Len(PreMessages) :
                IsAssistant(PreMessages[i]) =>
                    screen[i].text =
                        Str(turns[ran][AssistantNo(PreMessages, i)].returned)

C5_Witness ==
    /\ Has(log, "replay") /\ ~Has(log, "chat_engine.chat")
    /\ Len(turns[ran]) = 2
    /\ turns[ran][1].returned.response = None
    /\ screen[2].text = "None"

\* C6, the state part: every entry is a user or an assistant entry, the
\* user entries are the raw inputs in submission order, and an assistant
\* entry comes right after the user entry it answers.
C6_Ordered ==
    \A s \in Sessions :
        LET m == Messages(s)
        IN /\ \A i \in 1..Len(m) : m[i].role \in {"user", "assistant"}
           /\ Len(Users(m)) = Len(inputs[s])
           /\ \A k \in 1..Len(inputs[s]) : Users(m)[k].content = inputs[s][k]
           /\ \A i \in 1..Len(m) :
                 IsAssistant(m[i]) =>
                    /\ i > 1 /\ IsUser(m[i - 1])
                    /\ LET t == turns[s][AssistantNo(m, i)]
                       IN /\ t.inputNo = Len(Users(SubSeq(m, 1, i)))
                          /\ t.sent = m[i - 1].content \o LANG_SUFFIX
\* C6, the step part: within a session the history only grows at its end.
C6_AppendOnly ==
    \A s \in Sessions :
        \/ IsPrefix(Messages(s), Messages(s)')
        \/ "messages" \notin DOMAIN session_state'[s]

\* C6: the session history is append-only and order-preserving.
C6_HistoryAppendOnlyOrdered == [](C6_Ordered) /\ [][C6_AppendOnly]_vars

C6_Witness ==
    \E s \in Sessions :
        /\ Len(Messages(s)) = 4
        /\ inputs[s][1] # inputs[s][2]
        /\ IsAssistant(Messages(s)[2]) /\ IsAssistant(Messages(s)[4])

\* C7 as stated: a bootstrap that finds PERSIST_DIR absent, or present
\* but holding no index, takes the build-and-persist path, not the load.
C7_Original ==
    (EnteredInit /\ (~pre.persistExists \/ pre.persistIndex = {})) =>
        BuildPath /\ ~LoadPath

\* C7 as amended: a bootstrap takes the build-and-persist path exactly
\* when PERSIST_DIR is absent; when it exists but holds no index the
\* bootstrap takes the load, which raises: nothing is built, written or
\* cached.
C7_BuildOnlyWhenAbsent ==
    EnteredInit =>
        /\ BuildPath <=> ~pre.persistExists
        /\ LoadPath <=> pre.persistExists
        /\ (pre.persistExists /\ pre.persistIndex = {}) =>
              /\ Last(log) = "raise"
              /\ NoBuildCalls
              /\ persistExists /\ persistIndex = {}
              /\ cache = None

C7_Witness ==
    /\ EnteredInit /\ pre.persistExists /\ pre.persistIndex = {}
    /\ pre.dataFiles # {}
    /\ Last(log) = "raise"

\* The citation string C8 describes: the score placeholder only for an
\* absent score.
ClaimedScoreText(node) ==
    IF node.score = None THEN "N/A" ELSE Format2f(node.score[1])
RECURSIVE ClaimedRefLines(_, _)
ClaimedRefLines(nodes, n) ==
    IF n = 0 THEN ""
    ELSE ClaimedRefLines(nodes, n - 1)
            \o "**[ref " \o ToString(n) \o "]** '" \o FileName(nodes[n])
            \o "' (weight: " \o ClaimedScoreText(nodes[n]) \o ")\n\n"
ClaimedRefInfo(response) ==
    IF "source_nodes" \in DOMAIN response
    THEN ClaimedRefLines(response.source_nodes, Len(response.source_nodes))
    ELSE ""

\* C8: the citation string of a turn holds one entry per source node, in
\* order, numbered from 1, with the file name (or the default name) and
\* the score in two decimals; "N/A" stands only for an absent score, so
\* a score of 0 reads 0.00.
C8_CitationPerNode ==
    \A s \in Sessions :
        \A j \in 1..Len(turns[s]) :
            j <= Len(Assistants(Messages(s))) =>
                TurnEntry(s, j).sources = ClaimedRefInfo(turns[s][j].returned)

\* C9: whenever the application waits for input, every session's history
\* alternates user, assistant, starting with a user entry and ending with
\* an assistant entry, also after an engine call that raised.
C9_Alternates ==
    \A s \in Sessions :
        LET m == Messages(s)
        IN /\ Len(m) % 2 = 0
           /\ \A i \in 1..Len(m) :
                 m[i].role = IF i % 2 = 1 THEN "user" ELSE "assistant"

\* C10: a replay shows the citation panel of an assistant turn exactly
\* when the live rendering of the turn showed it, that is, exactly when
\* the turn's citation string is not empty.
C10_ReplayPanelAsLive ==
    Has(log, "replay") =>
        \A i \in 1..Len(PreMessages) :
            (i <= Len(screen) /\ IsAssistant(PreMessages[i])) =>
                /\ screen[i].panel =
                      turns[ran][AssistantNo(PreMessages, i)].live.panel
                /\ screen[i].panel = (PreMessages[i].sources # "")
====
